---- MODULE Spec2Model ----
(***************************************************************************)
(* Spidertaire: the card model and deck builder of src/src/lib.rs and the  *)
(* tableau systems of src/src/main.rs (new_game, calculate_legal_moves,    *)
(* handle_grid_input, handle_available_input, find_max_rows,               *)
(* show_revealed_cards), run by the frame loop that main() registers.      *)
(*                                                                         *)
(* One frame is: an input (at most one left press, at one cursor place),   *)
(* the four PreUpdate systems in an order main() does not fix, the         *)
(* application of the commands they queued, and the Update stage whose     *)
(* draw systems give every card its Transform.                             *)
(***************************************************************************)
EXTENDS Integers, Sequences, FiniteSets, TLC

VARIABLES
    difficulty,         \* the Difficulty new_game was called with
    deck,               \* new_game's deck, after combine and shuffle
    CardGui,            \* entity -> Card, the CardGui component
    Hidden,             \* entities carrying the Hidden marker
    Shown,              \* entities carrying the Shown marker
    GridPosition,       \* entity -> <<x, y>>, the GridPosition component
    Transform,          \* entity -> the position its sprite was drawn at
    grid_cards,         \* the HashMap<GridPosition, Entity> resource
    available_sets,     \* the Vec<Available> resource, front first
    available_entities, \* the entities carrying an Available component
    legal_moves,        \* the LegalMoves resource
    next_entity,        \* next entity id the world hands out
    commands,           \* commands queued in this stage, not yet applied
    stage,              \* "Input", "PreUpdate" or "Update"
    pending,            \* PreUpdate systems that have not run in this frame
    click,              \* the frame's mouse input
    successful_move,    \* handle_grid_input's local of that name
    panicked,           \* an expect() failed: the process is gone
    clicks,             \* presses so far
    lib                 \* the last call into the card library, and its result

vars == <<difficulty, deck, CardGui, Hidden, Shown, GridPosition, Transform,
          grid_cards, available_sets, available_entities, legal_moves,
          next_entity, commands, stage, pending, click, successful_move,
          panicked, clicks, lib>>

\* ---------------------------------------------------------------- bounds
MaxSeed == 1
MaxClicks == 2
NewGameClicks == 1
DeepClicks == 3
DealClicks == 6
MaxCut == 2

\* ------------------------------------------------------------- constants
NumColumns == 10
NumHidden == 44
NumShown == 10
SetSize == 10

None == "None"

\* ------------------------------------------------------------ card model
CardValueAll ==
    <<"K", "Q", "J", "Ten", "Nine", "Eight", "Seven", "Six", "Five", "Four",
      "Three", "Two", "A">>

CardSuitAll == <<"Hearts", "Diamonds", "Clubs", "Spades">>

CardValuePrevious(v) ==
    CASE v = "K" -> None
      [] v = "Q" -> "K"
      [] v = "J" -> "Q"
      [] v = "Ten" -> "J"
      [] v = "Nine" -> "Ten"
      [] v = "Eight" -> "Nine"
      [] v = "Seven" -> "Eight"
      [] v = "Six" -> "Seven"
      [] v = "Five" -> "Six"
      [] v = "Four" -> "Five"
      [] v = "Three" -> "Four"
      [] v = "Two" -> "Three"
      [] v = "A" -> "Two"

CardValueNextClamped(v) ==
    IF v = "A" THEN "A"
    ELSE CardValueAll[(CHOOSE i \in 1..Len(CardValueAll) : CardValueAll[i] = v) + 1]

CardValueNext(v) ==
    CASE v = "K" -> "Q"
      [] v = "Q" -> "J"
      [] v = "J" -> "Ten"
      [] v = "Ten" -> "Nine"
      [] v = "Nine" -> "Eight"
      [] v = "Eight" -> "Seven"
      [] v = "Seven" -> "Six"
      [] v = "Six" -> "Five"
      [] v = "Five" -> "Four"
      [] v = "Four" -> "Three"
      [] v = "Three" -> "Two"
      [] v = "Two" -> "A"
      [] v = "A" -> None

CardValueToU8ZeroBased(v) ==
    Len(CardValueAll) - (CHOOSE i \in 1..Len(CardValueAll) : CardValueAll[i] = v)

CardValueToU8(v) ==
    CASE v = "K" -> 13
      [] v = "Q" -> 12
      [] v = "J" -> 11
      [] v = "Ten" -> 10
      [] v = "Nine" -> 9
      [] v = "Eight" -> 8
      [] v = "Seven" -> 7
      [] v = "Six" -> 6
      [] v = "Five" -> 5
      [] v = "Four" -> 4
      [] v = "Three" -> 3
      [] v = "Two" -> 2
      [] v = "A" -> 1

\* The values of a u8.
U8 == 0..(2^8 - 1)

\* Result<CardValue, String>.
Ok(v) == [ok |-> TRUE, value |-> v]

Err(e) == [ok |-> FALSE, error |-> e]

\* TryFrom<u8> for CardValue; the error is the message's two parts.
CardValueTryFrom(value) ==
    CASE value = 13 -> Ok("K")
      [] value = 12 -> Ok("Q")
      [] value = 11 -> Ok("J")
      [] value = 10 -> Ok("Ten")
      [] value = 9 -> Ok("Nine")
      [] value = 8 -> Ok("Eight")
      [] value = 7 -> Ok("Seven")
      [] value = 6 -> Ok("Six")
      [] value = 5 -> Ok("Five")
      [] value = 4 -> Ok("Four")
      [] value = 3 -> Ok("Three")
      [] value = 2 -> Ok("Two")
      [] value = 1 -> Ok("A")
      [] OTHER -> Err(<<"Unexpected card value: ", value>>)

Card(value, suit) == [value |-> value, suit |-> suit]

\* ---------------------------------------------------------- deck builder
\* One pass of `for value in CardValue::all() { cards.push(Card{value, suit}) }`.
PushAllValues(cards, suit) ==
    cards \o [i \in 1..Len(CardValueAll) |-> Card(CardValueAll[i], suit)]

DeckFromSuitThrice(suit) ==
    PushAllValues(PushAllValues(PushAllValues(<<>>, suit), suit), suit)

DeckFromSuit(suit) ==
    PushAllValues(PushAllValues(PushAllValues(PushAllValues(<<>>, suit), suit), suit), suit)

DeckFromSuits(suit1, suit2) ==
    PushAllValues(PushAllValues(PushAllValues(PushAllValues(<<>>, suit1), suit2), suit1), suit2)

DeckDefaultTwoSuits ==
    PushAllValues(PushAllValues(PushAllValues(PushAllValues(<<>>,
        CardSuitAll[1]), CardSuitAll[2]), CardSuitAll[1]), CardSuitAll[2])

DeckDefault ==
    PushAllValues(PushAllValues(PushAllValues(PushAllValues(<<>>,
        CardSuitAll[1]), CardSuitAll[2]), CardSuitAll[3]), CardSuitAll[4])

DeckNew == DeckDefault

\* Vec::append(&mut self, other): self takes other's elements in order
\* after its own, other is left empty.
VecAppendInFront(self, other) == [self |-> other \o self, other |-> <<>>]

VecAppend(self, other) == [self |-> self \o other, other |-> <<>>]

DeckCombine(cards, cards2) == VecAppend(cards, cards2).self

\* shuffle() permutes the cards with thread_rng: which permutation comes out
\* is not determined.  The permutations explored are the affine ones
\* k -> (a*k + b) mod n with a coprime to n = 104, one per seed.
ShuffleMultiplier(seed) == <<3, 25, 1, 7, 19, 103>>[((seed - 1) % 6) + 1]

ShuffleOffset(seed) == (5 * (seed - 1)) % 13

DeckShuffle(cards, seed) ==
    [i \in 1..Len(cards) |->
        cards[((ShuffleMultiplier(seed) * (i - 1) + ShuffleOffset(seed)) % Len(cards)) + 1]]

\* --------------------------------------------------------- grid position
Pos(x, y) == <<x, y>>

next_row(p) == Pos(p[1], p[2] + 1)

\* ------------------------------------------------------------------ setup
Difficulties == {"Easy", "Medium", "Hard"}

Systems ==
    {"calculate_legal_moves", "handle_grid_input", "handle_available_input",
     "show_revealed_cards"}

NoClick == [kind |-> "none", hit |-> None]

\* No call into the library yet.
NoCall == [op |-> "none", arg |-> None, result |-> None]

\* Entity 0 is the 2d camera setup spawns first; new_game's spawn() calls
\* take the following ids in call order.
GridEntity(pos) == 1 + pos

\* x: (pos % 10) as u8, y: (pos / 10) as u8.
GridCellTransposed(pos) == Pos(pos \div 10, pos % 10)

GridCell(pos) == Pos(pos % 10, pos \div 10)

\* cards.chunks_exact(size), each chunk pushed onto available_sets.
ChunksExactReversed(cards, size) ==
    [g \in 1..(Len(cards) \div size) |->
        SubSeq(cards, Len(cards) - size * g + 1, Len(cards) - size * (g - 1))]

ChunksExact(cards, size) ==
    [g \in 1..(Len(cards) \div size) |-> SubSeq(cards, size * (g - 1) + 1, size * g)]

NewGameDeck(d, seed) ==
    LET built == CASE d = "Easy" -> DeckFromSuit("Spades")
                   [] d = "Medium" -> DeckFromSuits("Spades", "Hearts")
                   [] d = "Hard" -> DeckNew
    IN  DeckShuffle(DeckCombine(built, built), seed)

\* The state new_game leaves once the startup stage has applied its commands.
NewGame(d, seed) ==
    LET shuffled == NewGameDeck(d, seed)
        hiddenPos == 0..(NumHidden - 1)
        shownPos == 0..(NumShown - 1)
        onGrid == NumHidden + NumShown
        rest == SubSeq(shuffled, onGrid + 1, Len(shuffled))
        sets == ChunksExact(rest, SetSize)
        nsets == Len(sets)
        cell(k) == GridCell(k)
    IN  /\ difficulty = d
        /\ deck = shuffled
        /\ CardGui = [e \in {GridEntity(k) : k \in 0..(onGrid - 1)} |-> shuffled[e]]
        /\ Hidden = {GridEntity(pos) : pos \in hiddenPos}
        /\ Shown = {GridEntity(pos + 44) : pos \in shownPos}
        /\ GridPosition = [e \in {GridEntity(k) : k \in 0..(onGrid - 1)} |-> cell(e - 1)]
        /\ grid_cards = [p \in {cell(k) : k \in 0..(onGrid - 1)} |->
                            GridEntity(CHOOSE k \in 0..(onGrid - 1) :
                                /\ cell(k) = p
                                /\ \A j \in 0..(onGrid - 1) : cell(j) = p => j <= k)]
        /\ available_sets = sets
        /\ available_entities = [g \in 1..nsets |-> onGrid + g]
        /\ next_entity = onGrid + nsets + 1

\* What the startup stage leaves besides new_game's entities and resources.
Startup ==
    /\ Transform = <<>>
    /\ legal_moves = {}
    /\ commands = <<>>
    /\ stage = "Input"
    /\ pending = {}
    /\ click = NoClick
    /\ successful_move = None
    /\ panicked = FALSE
    /\ clicks = 0
    /\ lib = NoCall

\* setup calls new_game(commands, Difficulty::Easy).
Init ==
    /\ \E seed \in 1..MaxSeed : NewGame("Easy", seed)
    /\ Startup

\* One game, followed further than the others.
InitDeep ==
    /\ NewGame("Easy", 1)
    /\ Startup

\* new_game called with any Difficulty.
InitNewGame ==
    /\ \E d \in Difficulties : \E seed \in 1..MaxSeed : NewGame(d, seed)
    /\ Startup

\* ---------------------------------------------------------------- frames
\* The frame's input: no press, a press on the reserve pile's rectangle, a
\* press inside the rectangle of a Shown card that has a Transform (hit is
\* the first such card handle_grid_input's query yields), or a press
\* elsewhere.  The pile's rectangle (y >= 174.5) and the cards' rectangles
\* (y <= 169.5) do not meet, so a press is never both.
ClickInputs ==
    {NoClick, [kind |-> "available", hit |-> None], [kind |-> "miss", hit |-> None]}
    \cup {[kind |-> "grid", hit |-> e] : e \in Shown \cap DOMAIN Transform}

\* A frame's input drawn from `inputs`, at most `limit` presses in a game.
InputOf(inputs, limit) ==
    /\ stage = "Input"
    /\ ~panicked
    /\ \E c \in inputs :
        /\ c.kind # "none" => clicks < limit
        /\ click' = c
        /\ clicks' = IF c.kind = "none" THEN clicks ELSE clicks + 1
    /\ stage' = "PreUpdate"
    /\ pending' = Systems
    /\ successful_move' = None
    /\ UNCHANGED <<difficulty, deck, CardGui, Hidden, Shown, GridPosition,
                   Transform, grid_cards, available_sets, available_entities,
                   legal_moves, next_entity, commands, panicked, lib>>

InputUpTo(limit) == InputOf(ClickInputs, limit)

Input == InputUpTo(MaxClicks)

InputNewGame == InputUpTo(NewGameClicks)

InputDeep == InputUpTo(DeepClicks)

\* Presses on the reserve pile only.
InputDeal == InputOf({NoClick, [kind |-> "available", hit |-> None]}, DealClicks)

Run(system) ==
    /\ stage = "PreUpdate"
    /\ ~panicked
    /\ system \in pending
    /\ pending' = pending \ {system}

\* ------------------------------------------------------- occupancy map
MapRemove(map, key) == [p \in (DOMAIN map) \ {key} |-> map[p]]

MapInsert(map, key, entity) ==
    [p \in (DOMAIN map) \cup {key} |-> IF p = key THEN entity ELSE map[p]]

\* -------------------------------------------------- calculate_legal_moves
\* The nested loops over the (CardGui, Shown, GridPosition) query; the Vec
\* is kept as the set of its elements (its order is the query's iteration
\* order, which the code does not control).
LegalMovesIgnoringOccupancy(shown, gui, position, grid) ==
    UNION {
        LET value == CardValueNext(gui[other_card].value)
            new_position == next_row(position[other_card])
        IN  IF value # None
            THEN {<<position[card], new_position>> :
                    card \in {c \in shown : gui[c].value = value}}
            ELSE {} :
        other_card \in shown}

LegalMovesOf(shown, gui, position, grid) ==
    UNION {
        LET value == CardValueNext(gui[other_card].value)
            new_position == next_row(position[other_card])
        IN  IF value # None /\ new_position \notin DOMAIN grid
            THEN {<<position[card], new_position>> :
                    card \in {c \in shown : gui[c].value = value}}
            ELSE {} :
        other_card \in shown}

calculate_legal_moves ==
    /\ Run("calculate_legal_moves")
    /\ legal_moves' = LegalMovesOf(Shown, CardGui, GridPosition, grid_cards)
    /\ UNCHANGED <<difficulty, deck, CardGui, Hidden, Shown, GridPosition,
                   Transform, grid_cards, available_sets, available_entities,
                   next_entity, commands, stage, click, successful_move,
                   panicked, clicks, lib>>

\* ------------------------------------------------------ handle_grid_input
\* The entities the (Shown, GridPosition, Transform) query yields.
GridQuery == Shown \cap (DOMAIN GridPosition) \cap (DOMAIN Transform)

RECURSIVE OrdersOf(_)
OrdersOf(S) ==
    IF S = {} THEN {<<>>}
    ELSE UNION {{<<x>> \o p : p \in OrdersOf(S \ {x})} : x \in S}

\* The first loop's body for the pressed card and the legal move found for
\* it: remove(&position).expect(..), insert(legal_move.1, entity),
\* *position = legal_move.1.
MoveCard(grid, position, e, legal_move) ==
    IF position[e] \notin DOMAIN grid
    THEN [grid |-> grid, position |-> position, panic |-> TRUE]
    ELSE [grid |-> MapInsert(MapRemove(grid, position[e]), legal_move[2],
                             grid[position[e]]),
          position |-> [position EXCEPT ![e] = legal_move[2]],
          panic |-> FALSE]

\* The cards the second loop's condition selects.  A card's position is
\* read when the loop reaches it, and only the loop's own visit changes it.
CascadeSet(position, input_move) ==
    {c \in GridQuery :
        /\ position[c][1] = input_move[1][1]
        /\ position[c][2] > input_move[1][2]}

\* The second loop, visiting the selected cards in the order `order`.
RECURSIVE Cascade(_, _, _)
Cascade(st, order, input_move) ==
    IF order = <<>> \/ st.panic THEN st
    ELSE LET c == Head(order)
             y_diff == st.position[c][2] - input_move[1][2]
             new_position == Pos(input_move[2][1], input_move[2][2] + y_diff)
         IN  IF st.position[c] \notin DOMAIN st.grid
             THEN [st EXCEPT !.panic = TRUE]
             ELSE Cascade(
                    [grid |-> MapInsert(MapRemove(st.grid, st.position[c]),
                                        new_position, st.grid[st.position[c]]),
                     position |-> [st.position EXCEPT ![c] = new_position],
                     panic |-> FALSE],
                    Tail(order), input_move)

\* Every state the handler can end in for the pressed card e and the legal
\* move it applies, over the orders in which the query can yield the cards.
MoveOutcomes(e, legal_move) ==
    LET moved == MoveCard(grid_cards, GridPosition, e, legal_move)
    IN  IF moved.panic THEN {moved}
        ELSE {Cascade(moved, order, legal_move) :
                order \in OrdersOf(CascadeSet(moved.position, legal_move))}

\* The inner loop's test `legal_move.0 == *position`: the moves it can stop
\* at for a pressed card at `position`.
FindLegalMoveAnySource(moves, position) == moves

FindLegalMove(moves, position) == {legal_move \in moves : legal_move[1] = position}

handle_grid_input ==
    /\ Run("handle_grid_input")
    /\ IF click.kind = "grid" /\ click.hit \in GridQuery
            /\ FindLegalMove(legal_moves, GridPosition[click.hit]) # {}
       THEN \E legal_move \in FindLegalMove(legal_moves, GridPosition[click.hit]) :
              /\ \E out \in MoveOutcomes(click.hit, legal_move) :
                    /\ grid_cards' = out.grid
                    /\ GridPosition' = out.position
                    /\ panicked' = out.panic
                    /\ successful_move' = legal_move
       ELSE UNCHANGED <<grid_cards, GridPosition, panicked, successful_move>>
    /\ UNCHANGED <<difficulty, deck, CardGui, Hidden, Shown, Transform,
                   available_sets, available_entities, legal_moves,
                   next_entity, commands, stage, click, clicks, lib>>

\* ------------------------------------------------- handle_available_input
\* find_max_rows.  The loop body reads and writes result[pos.x] only, so
\* the loop over the map's keys is the same as one loop per column over
\* that column's keys; MaxRowLoop is that loop for one column, taking the
\* rows in the order CHOOSE yields them.
RECURSIVE MaxRowLoopStrict(_, _)
MaxRowLoopStrict(result, rows) ==
    IF rows = {} THEN result
    ELSE LET y == CHOOSE r \in rows : TRUE
         IN  MaxRowLoopStrict(IF y > result THEN y + 1 ELSE result, rows \ {y})

RECURSIVE MaxRowLoop(_, _)
MaxRowLoop(result, rows) ==
    IF rows = {} THEN result
    ELSE LET y == CHOOSE r \in rows : TRUE
         IN  MaxRowLoop(IF y >= result THEN y + 1 ELSE result, rows \ {y})

find_max_rows(positions) ==
    [x \in 0..(NumColumns - 1) |->
        MaxRowLoop(0, {p[2] : p \in {q \in positions : q[1] = x}})]

Command(op, entity, card, position) ==
    [op |-> op, entity |-> entity, card |-> card, position |-> position]

\* available_sets.remove(0): what is left of the Vec.
VecRemoveFirstKeepingIt(sets) == sets

VecRemoveFirst(sets) == Tail(sets)

\* The effect of a press on the reserve pile when available_sets is not
\* empty.
DealFront ==
    LET last == available_entities[Len(available_entities)]
        despawn == IF Len(available_entities) > 0
                   THEN <<Command("despawn", last, None, None)>>
                   ELSE <<>>
        max_rows == find_max_rows(DOMAIN grid_cards)
        cards == Head(available_sets)
        entity(pos) == next_entity + pos
        position(pos) == Pos(pos, max_rows[pos])
        dealt == {position(pos) : pos \in 0..(Len(cards) - 1)}
    IN  /\ available_sets' = VecRemoveFirst(available_sets)
        /\ commands' = commands \o despawn \o
              [i \in 1..Len(cards) |->
                  Command("spawn_shown", entity(i - 1), cards[i], position(i - 1))]
        /\ next_entity' = next_entity + Len(cards)
        /\ grid_cards' =
              [p \in (DOMAIN grid_cards) \cup dealt |->
                  IF p \in dealt
                  THEN entity(CHOOSE pos \in 0..(Len(cards) - 1) :
                          /\ position(pos) = p
                          /\ \A j \in 0..(Len(cards) - 1) :
                                position(j) = p => j <= pos)
                  ELSE grid_cards[p]]

handle_available_input ==
    /\ Run("handle_available_input")
    /\ IF click.kind = "available" /\ available_sets # <<>>
       THEN DealFront
       ELSE UNCHANGED <<available_sets, commands, next_entity, grid_cards>>
    /\ UNCHANGED <<difficulty, deck, CardGui, Hidden, Shown, GridPosition,
                   Transform, available_entities, legal_moves, stage, click,
                   successful_move, panicked, clicks, lib>>

\* ---------------------------------------------------- show_revealed_cards
RECURSIVE AscendingSeq(_)
AscendingSeq(S) ==
    IF S = {} THEN <<>>
    ELSE LET least == CHOOSE x \in S : \A y \in S : x <= y
         IN  <<least>> \o AscendingSeq(S \ {least})

RevealedWhenNothingAbove(hidden, position, grid) ==
    {e \in hidden \cap DOMAIN position :
        Pos(position[e][1], position[e][2] - 1) \notin DOMAIN grid}

RevealedWhenCovered(hidden, position, grid) ==
    {e \in hidden \cap DOMAIN position : next_row(position[e]) \in DOMAIN grid}

Revealed(hidden, position, grid) ==
    {e \in hidden \cap DOMAIN position : next_row(position[e]) \notin DOMAIN grid}

RevealCommandsKeepingHidden(e) ==
    <<Command("insert_shown", e, None, None)>>

\* remove::<Hidden>() followed by insert(Shown), for one entity.
RevealCommands(e) ==
    <<Command("remove_hidden", e, None, None), Command("insert_shown", e, None, None)>>

RECURSIVE RevealCommandsAll(_)
RevealCommandsAll(entities) ==
    IF entities = <<>> THEN <<>>
    ELSE RevealCommands(Head(entities)) \o RevealCommandsAll(Tail(entities))

show_revealed_cards ==
    /\ Run("show_revealed_cards")
    /\ commands' = commands \o
          RevealCommandsAll(AscendingSeq(Revealed(Hidden, GridPosition, grid_cards)))
    /\ UNCHANGED <<difficulty, deck, CardGui, Hidden, Shown, GridPosition,
                   Transform, grid_cards, available_sets, available_entities,
                   legal_moves, next_entity, stage, click, successful_move,
                   panicked, clicks, lib>>

\* ------------------------------------------------------- end of PreUpdate
World(gui, hidden, shown, position, avail) ==
    [CardGui |-> gui, Hidden |-> hidden, Shown |-> shown,
     GridPosition |-> position, available_entities |-> avail]

ApplyCommand(w, cmd) ==
    CASE cmd.op = "spawn_shown" ->
            [w EXCEPT !.CardGui = [e \in (DOMAIN w.CardGui) \cup {cmd.entity} |->
                                     IF e = cmd.entity THEN cmd.card ELSE w.CardGui[e]],
                      !.Shown = w.Shown \cup {cmd.entity},
                      !.GridPosition =
                          [e \in (DOMAIN w.GridPosition) \cup {cmd.entity} |->
                              IF e = cmd.entity THEN cmd.position
                              ELSE w.GridPosition[e]]]
      [] cmd.op = "remove_hidden" -> [w EXCEPT !.Hidden = w.Hidden \ {cmd.entity}]
      [] cmd.op = "insert_shown" -> [w EXCEPT !.Shown = w.Shown \cup {cmd.entity}]
      [] cmd.op = "despawn" ->
            [w EXCEPT !.available_entities =
                SelectSeq(w.available_entities, LAMBDA a : a # cmd.entity)]

RECURSIVE ApplyCommands(_, _)
ApplyCommands(w, cmds) ==
    IF cmds = <<>> THEN w
    ELSE ApplyCommands(ApplyCommand(w, Head(cmds)), Tail(cmds))

\* The PreUpdate stage ends when its four systems have run: the commands
\* they queued are applied to the world.
apply_buffers ==
    /\ stage = "PreUpdate"
    /\ ~panicked
    /\ pending = {}
    /\ LET w == ApplyCommands(
                  World(CardGui, Hidden, Shown, GridPosition, available_entities),
                  commands)
       IN  /\ CardGui' = w.CardGui
           /\ Hidden' = w.Hidden
           /\ Shown' = w.Shown
           /\ GridPosition' = w.GridPosition
           /\ available_entities' = w.available_entities
    /\ commands' = <<>>
    /\ stage' = "Update"
    /\ UNCHANGED <<difficulty, deck, Transform, grid_cards, available_sets,
                   legal_moves, next_entity, pending, click, successful_move,
                   panicked, clicks, lib>>

\* ----------------------------------------------------------------- Update
\* draw_grid_hidden and draw_grid_shown insert a SpriteBundle whose
\* Transform is computed from the card's GridPosition; the insertions are
\* applied when the Update stage ends.
draw_grid ==
    /\ stage = "Update"
    /\ ~panicked
    /\ Transform' = [e \in (Hidden \cup Shown) \cap DOMAIN GridPosition |->
                        GridPosition[e]]
    /\ stage' = "Input"
    /\ UNCHANGED <<difficulty, deck, CardGui, Hidden, Shown, GridPosition,
                   grid_cards, available_sets, available_entities, legal_moves,
                   next_entity, commands, pending, click, successful_move,
                   panicked, clicks, lib>>

Next ==
    \/ Input
    \/ calculate_legal_moves
    \/ handle_grid_input
    \/ handle_available_input
    \/ show_revealed_cards
    \/ apply_buffers
    \/ draw_grid

Spec == Init /\ [][Next]_vars

\* Games of every difficulty, followed through their first presses.
NextNewGame ==
    \/ InputNewGame
    \/ calculate_legal_moves
    \/ handle_grid_input
    \/ handle_available_input
    \/ show_revealed_cards
    \/ apply_buffers
    \/ draw_grid

SpecNewGame == InitNewGame /\ [][NextNewGame]_vars

\* One game followed through DeepClicks presses.
NextDeep ==
    \/ InputDeep
    \/ calculate_legal_moves
    \/ handle_grid_input
    \/ handle_available_input
    \/ show_revealed_cards
    \/ apply_buffers
    \/ draw_grid

SpecDeep == InitDeep /\ [][NextDeep]_vars

\* One game in which the reserve pile is pressed until it is empty, and once
\* more.
NextDeal ==
    \/ InputDeal
    \/ calculate_legal_moves
    \/ handle_grid_input
    \/ handle_available_input
    \/ show_revealed_cards
    \/ apply_buffers
    \/ draw_grid

SpecDeal == InitDeep /\ [][NextDeal]_vars

\* ------------------------------------------------------ the card library
\* Calls into src/src/lib.rs on their own: one action per public function,
\* its arguments drawn from the values of its parameter types.
game_vars == <<difficulty, deck, CardGui, Hidden, Shown, GridPosition, Transform,
               grid_cards, available_sets, available_entities, legal_moves,
               next_entity, commands, stage, pending, click, successful_move,
               panicked, clicks>>

CardValues == {CardValueAll[i] : i \in 1..Len(CardValueAll)}

CardSuits == {CardSuitAll[i] : i \in 1..Len(CardSuitAll)}

Call(op, arg, result) == [op |-> op, arg |-> arg, result |-> result]

\* The decks handed to combine: what the constructors return, and the first
\* cards of a deck, up to MaxCut of them.
LibDecks ==
    {DeckNew}
    \cup {DeckFromSuit(s) : s \in CardSuits}
    \cup {DeckFromSuits(s1, s2) : s1 \in CardSuits, s2 \in CardSuits}
    \cup {SubSeq(DeckNew, 1, k) : k \in 0..MaxCut}

call_previous ==
    /\ \E v \in CardValues : lib' = Call("previous", v, CardValuePrevious(v))
    /\ UNCHANGED game_vars

call_next ==
    /\ \E v \in CardValues : lib' = Call("next", v, CardValueNext(v))
    /\ UNCHANGED game_vars

call_u8_from ==
    /\ \E v \in CardValues : lib' = Call("u8_from", v, CardValueToU8(v))
    /\ UNCHANGED game_vars

call_try_from ==
    /\ \E value \in U8 : lib' = Call("try_from", value, CardValueTryFrom(value))
    /\ UNCHANGED game_vars

call_new ==
    /\ lib' = Call("new", None, DeckNew)
    /\ UNCHANGED game_vars

call_from_suit ==
    /\ \E suit \in CardSuits : lib' = Call("from_suit", suit, DeckFromSuit(suit))
    /\ UNCHANGED game_vars

call_from_suits ==
    /\ \E suit1 \in CardSuits, suit2 \in CardSuits :
          lib' = Call("from_suits", <<suit1, suit2>>, DeckFromSuits(suit1, suit2))
    /\ UNCHANGED game_vars

call_combine ==
    /\ \E cards \in LibDecks, cards2 \in LibDecks :
          lib' = Call("combine", <<cards, cards2>>, VecAppend(cards, cards2))
    /\ UNCHANGED game_vars

NextLib ==
    \/ call_previous
    \/ call_next
    \/ call_u8_from
    \/ call_try_from
    \/ call_new
    \/ call_from_suit
    \/ call_from_suits
    \/ call_combine

SpecLib == InitDeep /\ [][NextLib]_vars

\* ================================================================= claims
\* A step in which the named system runs.
Ran(system) == system \in pending /\ system \notin pending'

RankOf(e) == CardValueToU8(CardGui[e].value)

\* The legal moves as the rule states them: C and R Shown, C exactly one
\* rank below R, the cell under R not a key of the occupancy map.
RuleLegalMoves ==
    UNION {{<<GridPosition[c], next_row(GridPosition[r])>> :
                c \in {k \in Shown : RankOf(k) + 1 = RankOf(r)}} :
           r \in {q \in Shown : next_row(GridPosition[q]) \notin DOMAIN grid_cards}}

\* C1: calculate_legal_moves leaves the tableau as it is and makes the
\* legal-move set exactly the set of pairs (position of C, cell under R) with
\* C and R Shown, C one rank below R and the cell under R absent from the
\* occupancy map; no Hidden card is a source or a reference card.
C1_LegalMovesExact ==
    [][Ran("calculate_legal_moves") =>
        /\ UNCHANGED <<CardGui, Hidden, Shown, GridPosition, grid_cards>>
        /\ legal_moves' = RuleLegalMoves
        /\ \A mv \in legal_moves' :
              /\ \E c \in Shown : GridPosition[c] = mv[1]
              /\ \E r \in Shown : next_row(GridPosition[r]) = mv[2]]_vars

\* C1 witness: calculate_legal_moves has run, found a move, and left out a
\* pair that has the right ranks but an occupied target.
C1_Witness ==
    /\ stage = "PreUpdate"
    /\ "calculate_legal_moves" \notin pending
    /\ legal_moves # {}
    /\ legal_moves = RuleLegalMoves
    /\ \E c \in Shown, r \in Shown :
          /\ RankOf(c) + 1 = RankOf(r)
          /\ next_row(GridPosition[r]) \in DOMAIN grid_cards
          /\ <<GridPosition[c], next_row(GridPosition[r])>> \notin legal_moves

\* C2: a move handle_grid_input applies belongs to the legal-move set of the
\* tableau as it is when the move is applied: its target is unoccupied and
\* the rank rule holds for the cards as they are then, in whatever order the
\* four systems run.
C2_AppliedMoveIsFresh ==
    [][(Ran("handle_grid_input") /\ successful_move' # None) =>
        /\ successful_move' \in RuleLegalMoves
        /\ successful_move'[2] \notin DOMAIN grid_cards]_vars

\* A step in which handle_grid_input applies a move that is legal for the
\* tableau as it is, and does not abort.
AppliesLegalMove ==
    /\ Ran("handle_grid_input")
    /\ successful_move' # None
    /\ successful_move' \in RuleLegalMoves
    /\ ~panicked'

\* C3: after a legal move (Pc, target), also one whose target is in Pc's own
\* column, the moved card's stored position is target, the occupancy map maps
\* target to that card, and Pc is not a key of the map.
C3_MovedCardAtTarget ==
    [][AppliesLegalMove =>
        /\ GridPosition'[click.hit] = successful_move'[2]
        /\ successful_move'[2] \in DOMAIN grid_cards'
        /\ grid_cards'[successful_move'[2]] = click.hit
        /\ successful_move'[1] \notin DOMAIN grid_cards']_vars

\* C4: a legal move (Pc, target) relocates every other Shown card of Pc's
\* column at a row greater than Pc's to (target column, target row + (old
\* row - Pc's row)), whatever the ranks and suits of those cards.
C4_CascadeKeepsOffsets ==
    [][(/\ Ran("handle_grid_input")
        /\ successful_move' # None
        /\ successful_move' \in RuleLegalMoves) =>
        \A c \in Shown \ {click.hit} :
            (/\ GridPosition[c][1] = successful_move'[1][1]
             /\ GridPosition[c][2] > successful_move'[1][2]) =>
                GridPosition'[c] =
                    Pos(successful_move'[2][1],
                        successful_move'[2][2]
                            + (GridPosition[c][2] - successful_move'[1][2]))]_vars

\* The entities a queued command of kind op names.
Queued(cmds, op) == {cmds[i].entity : i \in {j \in 1..Len(cmds) : cmds[j].op = op}}

\* The step that ends PreUpdate and applies the queued commands.
AppliesCommands == stage = "PreUpdate" /\ stage' = "Update"

\* C5: the reveal step turns a Hidden card at P into a Shown card exactly
\* when the cell under P is absent from the occupancy map; a Hidden card
\* whose cell below is occupied stays Hidden; the step changes no position
\* and no map entry.
C5_RevealExactlyUncovered ==
    [][/\ Ran("show_revealed_cards") =>
            /\ Queued(commands', "remove_hidden") =
                  {e \in Hidden : next_row(GridPosition[e]) \notin DOMAIN grid_cards}
            /\ Queued(commands', "insert_shown") = Queued(commands', "remove_hidden")
            /\ UNCHANGED <<GridPosition, grid_cards, Hidden, Shown>>
       /\ AppliesCommands =>
            /\ \A e \in Hidden :
                  (e \in Shown' /\ e \notin Hidden') <=> e \in Queued(commands, "remove_hidden")
            /\ \A e \in Hidden : e \in Hidden' <=> e \notin Queued(commands, "remove_hidden")
            /\ \A e \in DOMAIN GridPosition : GridPosition'[e] = GridPosition[e]
            /\ grid_cards' = grid_cards]_vars

\* C5 witness: the commands are applied and a card new_game dealt Hidden is
\* Shown with nothing under it, while a covered card is still Hidden.
C5_Witness ==
    /\ stage = "Update"
    /\ \E e \in Shown :
          /\ e <= NumHidden
          /\ next_row(GridPosition[e]) \notin DOMAIN grid_cards
    /\ \E h \in Hidden : next_row(GridPosition[h]) \in DOMAIN grid_cards

\* The greatest occupied row of column x plus one, 0 for an empty column.
ColumnHeight(x) ==
    LET rows == {p[2] : p \in {q \in DOMAIN grid_cards : q[1] = x}}
    IN  IF rows = {} THEN 0 ELSE 1 + CHOOSE y \in rows : \A z \in rows : z <= y

Deals ==
    /\ Ran("handle_available_input")
    /\ click.kind = "available"
    /\ available_sets # <<>>

\* C6: a deal from a non-empty queue removes exactly the front group and
\* places its card i, for each column i, as a Shown card at (i, h_i), h_i the
\* greatest occupied row of column i plus one or 0 for an empty column; no
\* card already there changes position or visibility and no map entry is
\* overwritten.
C6_DealLandsUnderColumns ==
    [][/\ Deals =>
            /\ available_sets' = Tail(available_sets)
            /\ Len(available_sets') = Len(available_sets) - 1
            /\ \A i \in 0..(NumColumns - 1) :
                  /\ Pos(i, ColumnHeight(i)) \notin DOMAIN grid_cards
                  /\ Pos(i, ColumnHeight(i)) \in DOMAIN grid_cards'
                  /\ \E k \in 1..Len(commands') :
                        /\ commands'[k].op = "spawn_shown"
                        /\ commands'[k].card = Head(available_sets)[i + 1]
                        /\ commands'[k].position = Pos(i, ColumnHeight(i))
                        /\ commands'[k].entity = grid_cards'[Pos(i, ColumnHeight(i))]
                        /\ commands'[k].entity \notin DOMAIN CardGui
            /\ DOMAIN grid_cards' =
                  (DOMAIN grid_cards) \cup {Pos(i, ColumnHeight(i)) : i \in 0..(NumColumns - 1)}
            /\ \A p \in DOMAIN grid_cards : grid_cards'[p] = grid_cards[p]
            /\ UNCHANGED <<GridPosition, Hidden, Shown, CardGui>>
       /\ AppliesCommands =>
            \A k \in 1..Len(commands) :
                commands[k].op = "spawn_shown" =>
                    /\ commands[k].entity \in Shown' \ Hidden'
                    /\ CardGui'[commands[k].entity] = commands[k].card
                    /\ GridPosition'[commands[k].entity] = commands[k].position
                    /\ \A e \in DOMAIN GridPosition :
                          /\ GridPosition'[e] = GridPosition[e]
                          /\ e \in Shown => e \in Shown']_vars

\* C6 witness: the first group has been dealt: ten more cards are on the
\* tableau, Shown, one at the bottom of each column, and four groups remain.
C6_Witness ==
    /\ stage = "Update"
    /\ Len(available_sets) = 4
    /\ Cardinality(DOMAIN CardGui) = NumHidden + NumShown + SetSize
    /\ \A i \in 0..(NumColumns - 1) :
          \E e \in Shown :
              /\ e \notin 1..(NumHidden + NumShown)
              /\ GridPosition[e] = Pos(i, ColumnHeight(i) - 1)
              /\ CardGui[e] = deck[NumHidden + NumShown + i + 1]

\* The cells holding a Hidden card, and those holding a Shown card.
HiddenCells == {GridPosition[e] : e \in Hidden}

ShownCells == {GridPosition[e] : e \in Shown}

\* The state new_game left, before any press.
NewGameState == clicks = 0

\* C7 as stated: a new one-suit game has exactly 44 Hidden cells and 10
\* Shown cells, all within the first five rows of the ten columns, and
\* exactly 5 reserve groups of 10 cards.
C7_FirstFiveRows ==
    (NewGameState /\ difficulty = "Easy") =>
        /\ Cardinality(HiddenCells) = 44
        /\ Cardinality(ShownCells) = 10
        /\ HiddenCells \cap ShownCells = {}
        /\ \A p \in HiddenCells \cup ShownCells : p[1] \in 0..9 /\ p[2] \in 0..4
        /\ Len(available_sets) = 5
        /\ \A g \in 1..Len(available_sets) : Len(available_sets[g]) = 10

\* C7 as amended: a new one-suit game has exactly 44 Hidden cells and 10
\* Shown cells, all within the first six rows of the ten columns (rows 0..4
\* full, row 5 in columns 0..3), and exactly 5 reserve groups of 10 cards.
C7_FirstSixRows ==
    (NewGameState /\ difficulty = "Easy") =>
        /\ Cardinality(HiddenCells) = 44
        /\ Cardinality(ShownCells) = 10
        /\ HiddenCells \cap ShownCells = {}
        /\ HiddenCells \cup ShownCells =
              {p \in (0..9) \X (0..5) : p[2] <= 4 \/ p[1] <= 3}
        /\ DOMAIN grid_cards = HiddenCells \cup ShownCells
        /\ Len(available_sets) = 5
        /\ \A g \in 1..Len(available_sets) : Len(available_sets[g]) = 10

\* C7 witness: a new one-suit game, its commands applied and its cards drawn,
\* with a Shown card in the sixth row.
C7_Witness ==
    /\ NewGameState
    /\ difficulty = "Easy"
    /\ DOMAIN Transform = Hidden \cup Shown
    /\ Cardinality(Hidden) = 44
    /\ \E e \in Shown : GridPosition[e][2] = 5

\* C8: for every difficulty new_game places card k of the shuffled deck at
\* (k mod 10, k div 10) for k in 0..53, Hidden for k < 44 and Shown after,
\* and enqueues cards 54..103 as five groups of ten in deck order, group 0 in
\* front; every Hidden card then has an occupied cell under it, and the
\* reveal step queues nothing.
C8_NewGameLayout ==
    NewGameState =>
        /\ Len(deck) = 104
        /\ Cardinality(DOMAIN CardGui) = 54
        /\ DOMAIN GridPosition = DOMAIN CardGui
        /\ Hidden \cup Shown = DOMAIN CardGui
        /\ \A k \in 0..53 :
              LET cell == Pos(k % 10, k \div 10)
              IN  /\ cell \in DOMAIN grid_cards
                  /\ GridPosition[grid_cards[cell]] = cell
                  /\ CardGui[grid_cards[cell]] = deck[k + 1]
                  /\ k < 44 => grid_cards[cell] \in Hidden \ Shown
                  /\ k >= 44 => grid_cards[cell] \in Shown \ Hidden
        /\ Cardinality(DOMAIN grid_cards) = 54
        /\ Len(available_sets) = 5
        /\ \A g \in 0..4 :
              /\ Len(available_sets[g + 1]) = 10
              /\ \A i \in 0..9 : available_sets[g + 1][i + 1] = deck[54 + 10 * g + i + 1]
        /\ \A e \in Hidden : next_row(GridPosition[e]) \in DOMAIN grid_cards
        /\ Queued(commands, "remove_hidden") = {}
        /\ Queued(commands, "insert_shown") = {}

\* C8 witness: a new two-suit or four-suit game in which the reveal step has
\* run and the commands have been applied, all 44 Hidden cards still Hidden.
C8_Witness ==
    /\ NewGameState
    /\ difficulty # "Easy"
    /\ stage = "Update"
    /\ Cardinality(Hidden) = 44
    /\ \E k \in 0..53 : deck[k + 1].suit # "Spades"

\* C9: between frames the occupancy map and the card records agree: a
\* position is a key of the map exactly when some card's stored position
\* equals it, the entry at P refers to a card whose stored position is P, and
\* no two cards have the same stored position.
C9_MapAgreesWithCards ==
    (stage = "Input" /\ ~panicked) =>
        /\ DOMAIN grid_cards = {GridPosition[e] : e \in DOMAIN GridPosition}
        /\ \A p \in DOMAIN grid_cards :
              /\ grid_cards[p] \in DOMAIN GridPosition
              /\ GridPosition[grid_cards[p]] = p
        /\ \A e1 \in DOMAIN GridPosition, e2 \in DOMAIN GridPosition :
              GridPosition[e1] = GridPosition[e2] => e1 = e2

\* Every card on the tableau carries exactly one of the two markers.
ExactlyOneMarker ==
    \A e \in DOMAIN CardGui : (e \in Hidden) # (e \in Shown)

\* C10: every card is at all times exactly one of Hidden or Shown; a Shown
\* card is Shown in every later state; a card's marker changes only when the
\* reveal step's commands are applied, and only from Hidden to Shown.
C10_VisibilityMonotone ==
    /\ ExactlyOneMarker
    /\ [][/\ ExactlyOneMarker'
          /\ \A e \in Shown : e \in Shown' /\ e \notin Hidden'
          /\ \A e \in DOMAIN CardGui :
                (e \in Hidden) # (e \in Hidden') \/ (e \in Shown) # (e \in Shown') =>
                    /\ AppliesCommands
                    /\ e \in Queued(commands, "remove_hidden")
                    /\ e \in Hidden /\ e \notin Shown
                    /\ e \in Shown' /\ e \notin Hidden'
          /\ \A e \in (DOMAIN CardGui') \ DOMAIN CardGui : e \in Shown' \ Hidden']_vars

\* C10 witness: a card new_game dealt Hidden was revealed by a move, and a
\* later press has been handled with the card still Shown.
C10_Witness ==
    /\ stage = "Input"
    /\ clicks = 2
    /\ click.kind \in {"grid", "available"}
    /\ \E e \in Shown \ Hidden : e <= NumHidden /\ e \in DOMAIN Transform

\* A press on the tableau, as handle_grid_input's hit test sees it: inside
\* the rectangle of a Shown card, or inside none (a Hidden card, no card).
GridClick == click.kind \in {"grid", "miss"}

\* The press selects the source of a pair of the legal-move set.
SelectsSource ==
    /\ click.kind = "grid"
    /\ \E legal_move \in legal_moves : legal_move[1] = GridPosition[click.hit]

\* C11: a grid click that does not select the source of a legal move (a
\* Shown card whose position is the source of no pair of the legal-move set,
\* a Hidden card, no card) is a silent no-op: handle_grid_input and
\* handle_available_input leave the occupancy map, every card's position and
\* visibility and the reserve queue unchanged, and no expect() fails.
C11_NonSourceClickIsNoOp ==
    [][/\ (GridClick /\ ~SelectsSource /\ Ran("handle_grid_input")) =>
            /\ UNCHANGED <<grid_cards, GridPosition, Hidden, Shown, CardGui,
                           available_sets, commands>>
            /\ successful_move' = None
            /\ ~panicked'
       /\ (GridClick /\ Ran("handle_available_input")) =>
            UNCHANGED <<grid_cards, GridPosition, Hidden, Shown, CardGui,
                        available_sets, commands, panicked>>]_vars

\* C11 witness: handle_grid_input has run on a press that hit a Shown card
\* which is the source of no pair, while the legal-move set holds pairs for
\* other cards.
C11_Witness ==
    /\ stage = "PreUpdate"
    /\ "handle_grid_input" \notin pending
    /\ "calculate_legal_moves" \in pending
    /\ click.kind = "grid"
    /\ legal_moves # {}
    /\ ~SelectsSource
    /\ successful_move = None
    /\ ~panicked

\* The groups new_game enqueued.
NumSets == 5

\* C12: a press on the reserve pile when the queue is empty is a no-op: the
\* occupancy map, all positions and markers are unchanged, nothing is queued
\* and the queue stays empty.  The queue never grows, it loses one group per
\* deal that takes effect, and the cards dealt so far are ten per group
\* gone: at most five deals take effect in a game.
C12_EmptyDealIsNoOp ==
    /\ [](/\ Len(available_sets) <= NumSets
          /\ next_entity = (NumHidden + NumShown + NumSets + 1)
                              + SetSize * (NumSets - Len(available_sets)))
    /\ [][/\ (/\ Ran("handle_available_input")
              /\ click.kind = "available"
              /\ available_sets = <<>>) =>
                /\ available_sets' = <<>>
                /\ UNCHANGED <<grid_cards, GridPosition, Hidden, Shown, CardGui,
                               commands, next_entity, available_entities, panicked>>
          /\ Len(available_sets') <= Len(available_sets)
          /\ Len(available_sets') # Len(available_sets) =>
                /\ Deals
                /\ Len(available_sets') = Len(available_sets) - 1]_vars

\* C12 witness: five presses emptied the queue and a sixth press on the pile
\* has been handled.
C12_Witness ==
    /\ stage = "Update"
    /\ click.kind = "available"
    /\ clicks = 6
    /\ available_sets = <<>>
    /\ Cardinality(DOMAIN CardGui) = NumHidden + NumShown + NumSets * SetSize
    /\ next_entity = (NumHidden + NumShown + NumSets + 1) + NumSets * SetSize

\* C13: K.previous() is None and A.next() is None; for every other rank r,
\* r.next() followed by previous() returns r, and r.previous() followed by
\* next() returns r.
C13_NextPreviousInverse ==
    /\ [](/\ (lib.op = "previous" /\ lib.arg = "K") => lib.result = None
          /\ (lib.op = "next" /\ lib.arg = "A") => lib.result = None
          /\ (lib.op = "previous" /\ lib.arg # "K") => lib.result \in CardValues
          /\ (lib.op = "next" /\ lib.arg # "A") => lib.result \in CardValues)
    /\ [][/\ (/\ lib.op = "next" /\ lib.arg # "A"
              /\ lib'.op = "previous" /\ lib'.arg = lib.result) =>
                lib'.result = lib.arg
          /\ (/\ lib.op = "previous" /\ lib.arg # "K"
              /\ lib'.op = "next" /\ lib'.arg = lib.result) =>
                lib'.result = lib.arg]_vars

\* C13 witness: previous() has been called on the rank next() returned for
\* an interior rank.
C13_Witness ==
    /\ lib.op = "previous"
    /\ lib.arg = CardValueNext("Seven")
    /\ lib.result = "Seven"

\* C14: the rank-to-number mapping is a bijection between the 13 ranks and
\* 1..13 with K = 13 and A = 1; a rank converted to its number and back with
\* try_from is the same rank; try_from fails for every 8-bit value outside
\* 1..13, 0 and 100 among them.
C14_RankNumberBijection ==
    /\ [](/\ lib.op = "u8_from" =>
                /\ lib.result \in 1..13
                /\ lib.arg = "K" <=> lib.result = 13
                /\ lib.arg = "A" <=> lib.result = 1
                /\ \A v \in CardValues :
                      CardValueToU8(v) = lib.result => v = lib.arg
          /\ lib.op = "try_from" =>
                /\ lib.arg \in 1..13 <=> lib.result.ok
                /\ lib.arg \in {0, 100} => ~lib.result.ok
                /\ lib.result.ok => lib.result.value \in CardValues)
    /\ [][/\ (/\ lib.op = "u8_from"
              /\ lib'.op = "try_from" /\ lib'.arg = lib.result) =>
                lib'.result = Ok(lib.arg)
          /\ (/\ lib.op = "try_from" /\ lib.result.ok
              /\ lib'.op = "u8_from" /\ lib'.arg = lib.result.value) =>
                lib'.result = lib.arg]_vars

\* C14 witness: try_from has been called on the number of K and returned K.
C14_Witness ==
    /\ lib.op = "try_from"
    /\ lib.arg = CardValueToU8("K")
    /\ lib.arg = 13
    /\ lib.result = Ok("K")

\* How many times card c occurs in cards.
Count(cards, c) == Cardinality({i \in 1..Len(cards) : cards[i] = c})

\* The ranks of cards[from..from+12] are K, Q, .., A in this order.
DescendingRun(cards, from) ==
    \A r \in 0..12 : CardValueToU8(cards[from + r].value) = 13 - r

\* C15: Deck::new() returns exactly 52 cards in which each of the 13 x 4
\* (rank, suit) combinations occurs exactly once, in suit-major order, the
\* ranks descending K..A within each suit.
C15_NewDeckIsStandard ==
    lib.op = "new" =>
        /\ Len(lib.result) = 52
        /\ \A v \in CardValues, s \in CardSuits : Count(lib.result, Card(v, s)) = 1
        /\ \A k \in 0..3 :
              /\ DescendingRun(lib.result, 13 * k + 1)
              /\ \A r \in 1..13 : lib.result[13 * k + r].suit = lib.result[13 * k + 1].suit
        /\ \A k \in 0..3, j \in 0..3 :
              lib.result[13 * k + 1].suit = lib.result[13 * j + 1].suit => k = j

\* C15 witness: Deck::new() has returned, its first card a K and its last an
\* A of another suit.
C15_Witness ==
    /\ lib.op = "new"
    /\ lib.result[1].value = "K"
    /\ lib.result[52].value = "A"
    /\ lib.result[1].suit # lib.result[52].suit

\* C16: Deck::from_suit(s) returns exactly 52 cards, none of a suit other
\* than s, with exactly 4 copies of each rank, ordered as 4 repetitions of
\* the descending sequence K..A.
C16_FromSuitFourRuns ==
    lib.op = "from_suit" =>
        /\ Len(lib.result) = 52
        /\ \A i \in 1..Len(lib.result) : lib.result[i].suit = lib.arg
        /\ \A v \in CardValues : Count(lib.result, Card(v, lib.arg)) = 4
        /\ \A k \in 0..3 : DescendingRun(lib.result, 13 * k + 1)

\* C16 witness: from_suit has returned for a suit other than the one
\* new_game asks for.
C16_Witness ==
    /\ lib.op = "from_suit"
    /\ lib.arg = "Hearts"
    /\ lib.result[14] = Card("K", "Hearts")
    /\ lib.result[52] = Card("A", "Hearts")

\* C17: combine(A, B) leaves A holding its previous cards in their previous
\* order followed by all of B's cards in B's order, so that len(A) after is
\* len(A before) + len(B before), and leaves B empty; a deck combined with
\* its own copy, as new_game does, has 104 cards with every (rank, suit)
\* multiplicity doubled, and so has new_game's deck after the shuffle.
C17_CombineAppends ==
    /\ lib.op = "combine" =>
          LET A == lib.arg[1]
              B == lib.arg[2]
              after == lib.result.self
          IN  /\ Len(after) = Len(A) + Len(B)
              /\ \A i \in 1..Len(A) : after[i] = A[i]
              /\ \A i \in 1..Len(B) : after[Len(A) + i] = B[i]
              /\ lib.result.other = <<>>
              /\ (A = B /\ Len(A) = 52) =>
                    /\ Len(after) = 104
                    /\ \A v \in CardValues, s \in CardSuits :
                          Count(after, Card(v, s)) = 2 * Count(A, Card(v, s))
    /\ Len(deck) = 104
    /\ \A v \in CardValues, s \in CardSuits :
          Count(deck, Card(v, s)) = 2 * Count(DeckFromSuit("Spades"), Card(v, s))

\* C17 witness: two different decks have been combined, and (second
\* conjunct) the game's deck holds eight copies of a card.
C17_Witness ==
    /\ lib.op = "combine"
    /\ lib.arg[1] = DeckNew
    /\ lib.arg[2] = DeckFromSuit("Spades")
    /\ Len(lib.result.self) = 104
    /\ lib.result.self[53] = Card("K", "Spades")
    /\ Count(deck, Card("Seven", "Spades")) = 8

\* The cards a move from Pc must leave alone: the Hidden cards, the cards of
\* the other columns, and the cards of Pc's column above Pc.
LeftAlone(Pc) ==
    {e \in DOMAIN GridPosition :
        \/ e \in Hidden
        \/ GridPosition[e][1] # Pc[1]
        \/ GridPosition[e][2] < Pc[2]}

\* Card e has its entry in the occupancy map.
HasEntry(grid, position, e) ==
    position[e] \in DOMAIN grid /\ grid[position[e]] = e

\* C18: executing a move (Pc, target) changes nothing except the moved card
\* and the Shown cards below it in Pc's column: every Hidden card, every
\* card of another column and every card of Pc's column above Pc keeps its
\* position, its map entry and its visibility, and the reserve queue is
\* unchanged.
C18_MoveLeavesOthersAlone ==
    [][(Ran("handle_grid_input") /\ successful_move' # None) =>
        /\ \A e \in LeftAlone(successful_move'[1]) :
              /\ GridPosition'[e] = GridPosition[e]
              /\ HasEntry(grid_cards, GridPosition, e) =>
                    HasEntry(grid_cards', GridPosition', e)
        /\ UNCHANGED <<Hidden, Shown, CardGui, available_sets, available_entities>>]_vars

\* C19: in no state reachable from a new game does move execution reach the
\* expect("Grid cards and components are out of sync"): every removal from
\* the occupancy map, for the moved card and for each cascaded card, finds
\* an entry at the card's stored position.
C19_NeverOutOfSync ==
    /\ [](~panicked)
    /\ [][(Ran("handle_grid_input") /\ successful_move' # None) =>
            /\ GridPosition[click.hit] \in DOMAIN grid_cards
            /\ ~panicked']_vars

\* C20: in every reachable state the occupied rows of each column are a
\* gap-free prefix 0..h-1: if (c, r) is a key of the occupancy map and r > 0
\* then (c, r-1) is one too; no move, cascade included, and no deal leaves
\* an empty cell above an occupied cell of the same column.
C20_ColumnsGapFree ==
    \A p \in DOMAIN grid_cards :
        p[2] > 0 => Pos(p[1], p[2] - 1) \in DOMAIN grid_cards

\* The distinct cards of the deck the game started from.
DeckCards == {deck[i] : i \in 1..Len(deck)}

\* How many tableau card records hold card c.
OnTableau(c) == Cardinality({e \in DOMAIN CardGui : CardGui[e] = c})

\* How many cards of the groups still in the reserve queue are c.
InReserve(c) ==
    Cardinality({p \in (1..Len(available_sets)) \X (1..SetSize) :
                    available_sets[p[1]][p[2]] = c})

\* The spawn commands a deal has queued, not yet applied.
SpawnCommands == SelectSeq(commands, LAMBDA cmd : cmd.op = "spawn_shown")

\* How many of them carry card c.
InSpawnCommands(c) ==
    Cardinality({k \in 1..Len(SpawnCommands) : SpawnCommands[k].card = c})

\* C21 as stated: in every reachable state the cards of the tableau card
\* records together with the cards of the groups still in the reserve queue
\* are the cards of the 104-card deck, with their multiplicities, and the
\* number of tableau cards plus 10 times the queue length is 104.
C21_CardsConserved ==
    /\ \A c \in DeckCards : OnTableau(c) + InReserve(c) = Count(deck, c)
    /\ \A e \in DOMAIN CardGui : CardGui[e] \in DeckCards
    /\ Cardinality(DOMAIN CardGui) + SetSize * Len(available_sets) = Len(deck)
    /\ Len(deck) = 104

\* The cards are where the amended claim says: on the tableau records, in
\* the spawn commands a deal has queued, or in the reserve queue.
CardsAccountedFor ==
    /\ \A c \in DeckCards :
          OnTableau(c) + InSpawnCommands(c) + InReserve(c) = Count(deck, c)
    /\ \A e \in DOMAIN CardGui : CardGui[e] \in DeckCards
    /\ Cardinality(DOMAIN CardGui) + Len(SpawnCommands)
          + SetSize * Len(available_sets) = Len(deck)
    /\ Len(deck) = 104

\* C21 as amended: in every reachable state the cards of the tableau card
\* records, of the spawn commands a deal has queued and not yet applied, and
\* of the groups still in the reserve queue are the cards of the 104-card
\* deck with their multiplicities; between frames nothing is queued, so the
\* tableau records and the reserve queue alone hold the 104 cards.  The
\* account is stated for the first state and for every step that touches
\* the deck, the records, the queued spawn commands or the reserve queue (it
\* reads nothing else).
C21_CardsConservedWithQueued ==
    /\ CardsAccountedFor
    /\ [](stage # "PreUpdate" => commands = <<>>)
    /\ [][\/ UNCHANGED <<deck, CardGui, SpawnCommands, available_sets>>
          \/ CardsAccountedFor']_vars

\* C21 witness: a deal has queued its ten cards and the stage's other
\* systems have run, the commands not yet applied: the tableau records and
\* the four remaining groups hold 94 cards.
C21_Witness ==
    /\ stage = "PreUpdate"
    /\ Len(SpawnCommands) = SetSize
    /\ Len(available_sets) = NumSets - 1
    /\ pending = {}
    /\ Cardinality(DOMAIN CardGui) + SetSize * Len(available_sets) = 94

\* Within each column every Hidden card is above every Shown card.
HiddenAboveShown ==
    \A h \in Hidden : \A s \in Shown :
        GridPosition[h][1] = GridPosition[s][1] =>
            GridPosition[h][2] < GridPosition[s][2]

\* C22: in every reachable state, within each column no Hidden card sits at
\* a row greater than that of a Shown card of the same column, so that a
\* move, which cascades Shown cards only, finds no Hidden card at or below
\* the moved card's row in its column.  The order of the column is stated
\* for the first state and for every step that touches a marker or a stored
\* position (it reads nothing else).
C22_HiddenAboveShown ==
    /\ HiddenAboveShown
    /\ [][/\ \/ UNCHANGED <<Hidden, Shown, GridPosition>>
             \/ HiddenAboveShown'
          /\ (Ran("handle_grid_input") /\ successful_move' # None) =>
                \A h \in Hidden :
                    GridPosition[h][1] = successful_move'[1][1] =>
                        GridPosition[h][2] < successful_move'[1][2]]_vars

\* C22 witness: a move took the last Shown card off a column and the reveal
\* step has turned the Hidden card above it: the column holds Hidden cards
\* and, below them, the revealed card.
C22_Witness ==
    /\ stage = "Input"
    /\ successful_move # None
    /\ ~panicked
    /\ \E e \in Shown :
          /\ e <= NumHidden
          /\ \E h \in Hidden :
                /\ GridPosition[h][1] = GridPosition[e][1]
                /\ GridPosition[h][2] + 1 = GridPosition[e][2]

\* C23: in every reachable state every pair (source, destination) of the
\* computed legal-move set has its destination in a column other than the
\* source's: a card is never offered a move onto the bottom of its own
\* column.
C23_NoMoveWithinColumn ==
    \A legal_move \in legal_moves : legal_move[1][1] # legal_move[2][1]

====
